---- MODULE Spec2Model ----
(***************************************************************************)
(* A model of the sized time-series container of                          *)
(* src/timeseries/interfaces.py (SizedContainerTimeSeriesInterface).      *)
(*                                                                         *)
(* Containers are objects with an identity; their three lists (_values,   *)
(* _times, timeseries) live in a heap and are held by reference, so that  *)
(* storage shared between two containers is expressible.  Three program   *)
(* variables (slots) are bound to containers: the inputs A and B, and R,  *)
(* which is rebound to the result of every operation that returns a       *)
(* container.  `last` records the most recent call and how it ended.      *)
(***************************************************************************)
EXTENDS Integers, Sequences, FiniteSets, TLC

VARIABLES objs, heap, last

vars == <<objs, heap, last>>

(* ------------------------------ bounds -------------------------------- *)

\* longest container of the behavioural specifications
MaxLen == 2
\* longest container of the formatting specification
MaxFmtLen == 7

TimeDom == {0, 1}
ValDom == {0, 1}
IndexDom == (0 - (MaxLen + 1)) .. MaxLen

\* `length <= 5` of __repr__ and __str__
FullLimit == 5
\* the stop of itertools.islice(self.timeseries, 0, 5)
SliceStop == 5

Slots == {"A", "B", "R"}
\* right-hand operands that are not TimeSeries instances
NonTS == {"int", "list"}

(* --------------------------- python objects --------------------------- *)

Ref(id, f) == [o |-> id, f |-> f]

\* an unbound slot (None)
NoObj == [id |-> 0, cls |-> "NoneType", hastime |-> FALSE,
          values |-> Ref(0, "none"), times |-> Ref(0, "none"),
          timeseries |-> Ref(0, "none")]

\* a right-hand operand of another type: it has none of the attributes
Foreign(c) == [NoObj EXCEPT !.cls = c]

Bound(o) == {s \in Slots : o[s].id # 0}

\* the operand a call names: a bound container, or a foreign value
Operand(o, r) == IF r \in Slots THEN o[r] ELSE Foreign(r)

\* id() of a new object: distinct from the id of every live object
FreshId(o) == CHOOSE n \in 1 .. (Cardinality(Slots) + 1) :
                 /\ n \notin {o[s].id : s \in Slots}
                 /\ \A m \in 1 .. (n - 1) : m \in {o[s].id : s \in Slots}

\* the lists still referenced once the slots are rebound
Collect(o, h) ==
    LET live == UNION {{o[s].values, o[s].times, o[s].timeseries} : s \in Bound(o)}
    IN  [r \in (DOMAIN h) \cap live |-> h[r]]

\* zip(a, b): pairs up to the shorter length
Zip(a, b) ==
    LET n == IF Len(a) <= Len(b) THEN Len(a) ELSE Len(b)
    IN  [k \in 1 .. n |-> <<a[k], b[k]>>]

\* a list comprehension or a caller's sequence: a new list object at r
NewList(h, r, items) == (r :> items) @@ h

\* the list objects a call hands to the constructor when they are not
\* lists of an existing container
ArgValues(id) == Ref(id, "arg_values")
ArgTimes(id) == Ref(id, "arg_times")

\* TimeSeries(values, times): the concrete constructor, handed two list
\* objects (references into the heap).  Its body is not part of the
\* interface file; it is taken here to store the items of both sequences in
\* lists the new container owns (the ownership rule of the data model) and
\* to compute the pairs from them.
TimeSeries(h, id, values, times) ==
    LET obj == [id |-> id, cls |-> "TimeSeries", hastime |-> TRUE,
                values |-> Ref(id, "values"), times |-> Ref(id, "times"),
                timeseries |-> Ref(id, "timeseries")]
    IN  [obj |-> obj,
         heap |-> (obj.values :> h[values]) @@ (obj.times :> h[times])
                  @@ (obj.timeseries :> Zip(h[times], h[values])) @@ h]

\* raise x: anything that is not an exception class is itself a TypeError
\* ("exceptions must derive from BaseException")
ExceptionClasses == {"TypeError", "ValueError", "IndexError", "AttributeError"}
PyRaise(x) == IF x \in ExceptionClasses THEN x ELSE "TypeError"

(* ----------------------------- python lists --------------------------- *)

\* l[i] is defined for -len(l) <= i < len(l)
ListIndexOK(l, i) == (0 - Len(l)) <= i /\ i < Len(l)
\* the 1-based position python's index i names
ListPos(l, i) == IF i < 0 THEN i + Len(l) + 1 ELSE i + 1
list_getitem(l, i) == l[ListPos(l, i)]
list_setitem(l, i, v) == [l EXCEPT ![ListPos(l, i)] = v]

(* ---------------------- __getitem__ / __setitem__ --------------------- *)

getitem(h, self, i) ==
    IF ListIndexOK(h[self.values], i)
    THEN [outcome |-> "ok", ret |-> list_getitem(h[self.values], i)]
    ELSE [outcome |-> PyRaise("IndexError"), ret |-> 0]

\* a faulty variant: the pairs are not rewritten
setitem_noPairs(h, self, i, value) ==
    IF ListIndexOK(h[self.values], i)
    THEN [outcome |-> "ok",
          heap |-> [h EXCEPT ![self.values] = list_setitem(@, i, value)]]
    ELSE [outcome |-> "IndexError", heap |-> h]

\* a faulty variant: the time at i is overwritten as well
setitem_alsoTime(h, self, i, value) ==
    IF ListIndexOK(h[self.values], i)
    THEN [outcome |-> "ok",
          heap |-> [h EXCEPT ![self.values] = list_setitem(@, i, value),
                             ![self.times] = list_setitem(@, i, value),
                             ![self.timeseries] = list_setitem(@, i, <<value, value>>)]]
    ELSE [outcome |-> "IndexError", heap |-> h]

\* a faulty variant: an index past either end is taken modulo the length
setitem_wrap(h, self, i, value) ==
    LET n == Len(h[self.values])
        j == IF n = 0 THEN i ELSE i % n
    IN  IF ListIndexOK(h[self.values], j)
        THEN [outcome |-> "ok",
              heap |-> [h EXCEPT ![self.values] = list_setitem(@, j, value),
                                 ![self.timeseries] = list_setitem(@, j,
                                      <<list_getitem(h[self.times], j), value>>)]]
        ELSE [outcome |-> "IndexError", heap |-> h]

\* self._values[i] = value ; self.timeseries[i] = (self._times[i], value)
setitem(h, self, i, value) ==
    IF ~ListIndexOK(h[self.values], i)
    THEN [outcome |-> PyRaise("IndexError"), heap |-> h]
    ELSE LET h1 == [h EXCEPT ![self.values] = list_setitem(@, i, value)]
         IN  IF ~ListIndexOK(h1[self.times], i)
                \/ ~ListIndexOK(h1[self.timeseries], i)
             THEN [outcome |-> PyRaise("IndexError"), heap |-> h1]
             ELSE [outcome |-> "ok",
                   heap |-> [h1 EXCEPT ![self.timeseries] =
                               list_setitem(@, i,
                                   <<list_getitem(h1[self.times], i), value>>)]]

(* --------------------------- unary operators -------------------------- *)

\* what an operator call yields: an exception, or a new container and the
\* heap that holds its lists
Raised(exc, chk, h) == [outcome |-> exc, checked |-> chk, obj |-> NoObj, heap |-> h]
Returned(made, chk) == [outcome |-> "ok", checked |-> chk, obj |-> made.obj,
                        heap |-> made.heap]

\* TimeSeries(self._values, self._times)
pos(h, id, self) ==
    Returned(TimeSeries(h, id, self.values, self.times), FALSE)

\* TimeSeries([-x for x in self._values], self._times)
neg(h, id, self) ==
    Returned(TimeSeries(
                 NewList(h, ArgValues(id),
                         [k \in 1 .. Len(h[self.values]) |-> 0 - h[self.values][k]]),
                 id, ArgValues(id), self.times), FALSE)

(* --------------------------- alignment check -------------------------- *)

\* a faulty variant: every right-hand operand is let through
isinstance_any(x) == TRUE

\* isinstance(rhs, TimeSeries)
isinstance_TimeSeries(x) == x.cls = "TimeSeries"

\* a faulty variant: only the lengths of the two time lists are compared
check_match_lengths(h, self, rhs) ==
    IF (~self.hastime) \/ (~rhs.hastime) THEN "TypeError"
    ELSE IF Len(h[self.times]) # Len(h[rhs.times]) THEN "ValueError" ELSE "ok"

\* "ok" when it returns, else the exception it raises.  An operand of a
\* foreign type has no attribute hastime.
check_match_helper(h, self, rhs) ==
    IF self.cls # "TimeSeries" \/ (self.hastime /\ rhs.cls # "TimeSeries")
    THEN PyRaise("AttributeError")
    ELSE IF (~self.hastime) \/ (~rhs.hastime) THEN PyRaise("NotImplemented")
    ELSE IF ~(h[self.times] = h[rhs.times]) THEN PyRaise("ValueError")
    ELSE "ok"

(* --------------------------- binary operators ------------------------- *)

\* a faulty variant: addition computes the difference
add_asSub(h, id, self, rhs) ==
    IF isinstance_TimeSeries(rhs)
    THEN LET chk == check_match_helper(h, self, rhs)
             pairs == Zip(h[self.values], h[rhs.values])
         IN  IF chk # "ok" THEN Raised(chk, TRUE, h)
             ELSE Returned(TimeSeries(
                      NewList(NewList(h, ArgValues(id),
                                  [k \in 1 .. Len(pairs) |-> pairs[k][1] - pairs[k][2]]),
                              ArgTimes(id),
                              [k \in 1 .. Len(h[self.times]) |-> h[self.times][k]]),
                      id, ArgValues(id), ArgTimes(id)), TRUE)
    ELSE Raised("TypeError", FALSE, h)

add(h, id, self, rhs) ==
    IF isinstance_TimeSeries(rhs)
    THEN LET chk == check_match_helper(h, self, rhs)
             pairs == Zip(h[self.values], h[rhs.values])
         IN  IF chk # "ok" THEN Raised(chk, TRUE, h)
             ELSE Returned(TimeSeries(
                      NewList(NewList(h, ArgValues(id),
                                  [k \in 1 .. Len(pairs) |-> pairs[k][1] + pairs[k][2]]),
                              ArgTimes(id),
                              [k \in 1 .. Len(h[self.times]) |-> h[self.times][k]]),
                      id, ArgValues(id), ArgTimes(id)), TRUE)
    ELSE Raised(PyRaise("TypeError"), FALSE, h)

sub(h, id, self, rhs) ==
    IF isinstance_TimeSeries(rhs)
    THEN LET chk == check_match_helper(h, self, rhs)
             pairs == Zip(h[self.values], h[rhs.values])
         IN  IF chk # "ok" THEN Raised(chk, TRUE, h)
             ELSE Returned(TimeSeries(
                      NewList(NewList(h, ArgValues(id),
                                  [k \in 1 .. Len(pairs) |-> pairs[k][1] - pairs[k][2]]),
                              ArgTimes(id),
                              [k \in 1 .. Len(h[self.times]) |-> h[self.times][k]]),
                      id, ArgValues(id), ArgTimes(id)), TRUE)
    ELSE Raised(PyRaise("TypeError"), FALSE, h)

mul(h, id, self, rhs) ==
    IF isinstance_TimeSeries(rhs)
    THEN LET chk == check_match_helper(h, self, rhs)
             pairs == Zip(h[self.values], h[rhs.values])
         IN  IF chk # "ok" THEN Raised(chk, TRUE, h)
             ELSE Returned(TimeSeries(
                      NewList(NewList(h, ArgValues(id),
                                  [k \in 1 .. Len(pairs) |-> pairs[k][1] * pairs[k][2]]),
                              ArgTimes(id),
                              [k \in 1 .. Len(h[self.times]) |-> h[self.times][k]]),
                      id, ArgValues(id), ArgTimes(id)), TRUE)
    ELSE Raised(PyRaise("TypeError"), FALSE, h)

\* a faulty variant: one equal position is enough
eq_any(h, self, rhs) ==
    IF isinstance_TimeSeries(rhs)
    THEN LET chk == check_match_helper(h, self, rhs)
             pairs == Zip(h[self.values], h[rhs.values])
         IN  IF chk # "ok" THEN [outcome |-> chk, checked |-> TRUE, ret |-> FALSE]
             ELSE [outcome |-> "ok", checked |-> TRUE,
                   ret |-> \E k \in 1 .. Len(pairs) : pairs[k][1] = pairs[k][2]]
    ELSE [outcome |-> "TypeError", checked |-> FALSE, ret |-> FALSE]

\* all([a == b for a, b in pairs])
eq(h, self, rhs) ==
    IF isinstance_TimeSeries(rhs)
    THEN LET chk == check_match_helper(h, self, rhs)
             pairs == Zip(h[self.values], h[rhs.values])
         IN  IF chk # "ok" THEN [outcome |-> chk, checked |-> TRUE, ret |-> FALSE]
             ELSE [outcome |-> "ok", checked |-> TRUE,
                   ret |-> \A k \in 1 .. Len(pairs) : pairs[k][1] = pairs[k][2]]
    ELSE [outcome |-> PyRaise("TypeError"), checked |-> FALSE, ret |-> FALSE]

(* ----------------------------- formatting ---------------------------- *)

\* A string is a sequence of tokens: a piece of literal text, a number, a
\* (time, value) tuple as repr prints it, or the replacement field "{}".
Lit(t) == [k |-> "lit", s |-> t, a |-> 0, b |-> 0]
IntTok(n) == [k |-> "int", s |-> "", a |-> n, b |-> 0]
PairTok(p) == [k |-> "pair", s |-> "", a |-> p[1], b |-> p[2]]
Hole == [k |-> "hole", s |-> "{}", a |-> 0, b |-> 0]

Min(x, y) == IF x <= y THEN x ELSE y
Max(x, y) == IF x >= y THEN x ELSE y

\* the items of a list, separated by ", "
Joined(l) ==
    [k \in 1 .. Max(2 * Len(l) - 1, 0) |->
        IF k % 2 = 1 THEN PairTok(l[(k + 1) \div 2]) ELSE Lit(", ")]

\* str(list) and repr(list)
list_repr(l) == <<Lit("[")>> \o Joined(l) \o <<Lit("]")>>

\* reprlib.repr(list): at most maxlist items, then "..."
ReprlibMaxList == 6
reprlib_repr(l) ==
    IF Len(l) <= ReprlibMaxList THEN list_repr(l)
    ELSE <<Lit("[")>> \o Joined(SubSeq(l, 1, ReprlibMaxList))
         \o <<Lit(", "), Lit("..."), Lit("]")>>

\* list(itertools.islice(l, 0, stop))
islice(l, stop) == SubSeq(l, 1, Min(stop, Len(l)))

\* s.find(t): the 0-based place of the first t, or -1
str_find(s, t) ==
    IF \E k \in 1 .. Len(s) : s[k] = t
    THEN (CHOOSE k \in 1 .. Len(s) :
              s[k] = t /\ \A j \in 1 .. (k - 1) : s[j] # t) - 1
    ELSE 0 - 1

\* s[:n]
str_upto(s, n) == SubSeq(s, 1, IF n < 0 THEN Max(Len(s) + n, 0) ELSE Min(n, Len(s)))

\* template.format(*args): the k-th "{}" becomes the k-th argument
RECURSIVE str_format(_, _)
str_format(template, args) ==
    IF template = <<>> THEN <<>>
    ELSE IF Head(template) = Hole
         THEN Head(args) \o str_format(Tail(template), Tail(args))
         ELSE <<Head(template)>> \o str_format(Tail(template), args)

\* '{}(len = {}; timeseries = {})'
ReprFull == <<Hole, Lit("("), Lit("len = "), Hole, Lit("; "),
              Lit("timeseries = "), Hole, Lit(")")>>
\* '{}(timeseries = {}, ...]; len = {})'
ReprCut == <<Hole, Lit("("), Lit("timeseries = "), Hole, Lit(", "), Lit("..."),
             Lit("]"), Lit("; "), Lit("len = "), Hole, Lit(")")>>
\* '{}, ...]'
StrCut == <<Hole, Lit(", "), Lit("..."), Lit("]")>>

\* __repr__
repr(h, self) ==
    LET class_name == <<Lit(self.cls)>>
        length == Len(h[self.timeseries])
    IN  IF length <= FullLimit
        THEN str_format(ReprFull,
                 <<class_name, <<IntTok(length)>>, list_repr(h[self.timeseries])>>)
        ELSE LET components == reprlib_repr(islice(h[self.timeseries], SliceStop))
                 cut == str_upto(components, str_find(components, Lit("]")))
             IN  str_format(ReprCut, <<class_name, <<IntTok(length)>>, cut>>)

\* __str__
str(h, self) ==
    LET length == Len(h[self.timeseries])
    IN  IF length <= FullLimit
        THEN list_repr(h[self.timeseries])
        ELSE LET components == reprlib_repr(islice(h[self.timeseries], SliceStop))
                 cut == str_upto(components, str_find(components, Lit("]")))
             IN  str_format(StrCut, <<cut>>)

(* ------------------------------- record ------------------------------- *)

NoLast == [op |-> "init", self |-> "none", rhs |-> "none", idx |-> 0,
           arg |-> 0, outcome |-> "none", retv |-> 0, retb |-> FALSE,
           rets |-> <<>>, checked |-> FALSE, new |-> 0]

(* ------------------------------- actions ------------------------------ *)

GetItem ==
    \E s \in Bound(objs), i \in IndexDom :
        LET r == getitem(heap, objs[s], i)
        IN  /\ last' = [NoLast EXCEPT !.op = "getitem", !.self = s, !.idx = i,
                                      !.outcome = r.outcome, !.retv = r.ret]
            /\ UNCHANGED <<objs, heap>>

SetItem ==
    \E s \in Bound(objs), i \in IndexDom, v \in ValDom :
        LET r == setitem(heap, objs[s], i, v)
        IN  /\ heap' = r.heap
            /\ last' = [NoLast EXCEPT !.op = "setitem", !.self = s, !.idx = i,
                                      !.arg = v, !.outcome = r.outcome]
            /\ UNCHANGED objs

\* R = <call>: R is rebound when the call returns, and kept when it raises
Assign(op, s, r, res) ==
    /\ objs' = IF res.outcome = "ok" THEN [objs EXCEPT !["R"] = res.obj] ELSE objs
    /\ heap' = Collect(objs', res.heap)
    /\ last' = [NoLast EXCEPT !.op = op, !.self = s, !.rhs = r,
                              !.outcome = res.outcome, !.checked = res.checked,
                              !.new = res.obj.id]

Pos == \E s \in Bound(objs) :
           Assign("pos", s, "none", pos(heap, FreshId(objs), objs[s]))

Neg == \E s \in Bound(objs) :
           Assign("neg", s, "none", neg(heap, FreshId(objs), objs[s]))

Add == \E s \in Bound(objs), r \in Bound(objs) \cup NonTS :
           Assign("add", s, r, add(heap, FreshId(objs), objs[s], Operand(objs, r)))

Sub == \E s \in Bound(objs), r \in Bound(objs) \cup NonTS :
           Assign("sub", s, r, sub(heap, FreshId(objs), objs[s], Operand(objs, r)))

Mul == \E s \in Bound(objs), r \in Bound(objs) \cup NonTS :
           Assign("mul", s, r, mul(heap, FreshId(objs), objs[s], Operand(objs, r)))

Eq == \E s \in Bound(objs), r \in Bound(objs) \cup NonTS :
          LET res == eq(heap, objs[s], Operand(objs, r))
          IN  /\ last' = [NoLast EXCEPT !.op = "eq", !.self = s, !.rhs = r,
                                        !.outcome = res.outcome,
                                        !.checked = res.checked, !.retb = res.ret]
              /\ UNCHANGED <<objs, heap>>

Repr == \E s \in Bound(objs) :
            /\ last' = [NoLast EXCEPT !.op = "repr", !.self = s, !.outcome = "ok",
                                      !.rets = repr(heap, objs[s])]
            /\ UNCHANGED <<objs, heap>>

Str == \E s \in Bound(objs) :
           /\ last' = [NoLast EXCEPT !.op = "str", !.self = s, !.outcome = "ok",
                                     !.rets = str(heap, objs[s])]
           /\ UNCHANGED <<objs, heap>>

(* ---------------------------- specification --------------------------- *)

\* one container A, built by the constructor from equal-length inputs
InitOne ==
    \E n \in 0 .. MaxLen :
      \E tm \in [1 .. n -> TimeDom], vl \in [1 .. n -> ValDom] :
        LET a == TimeSeries(NewList(NewList(<<>>, ArgValues(1), vl), ArgTimes(1), tm),
                            1, ArgValues(1), ArgTimes(1))
        IN  /\ objs = [s \in Slots |-> IF s = "A" THEN a.obj ELSE NoObj]
            /\ heap = Collect(objs, a.heap)
            /\ last = NoLast

\* two containers A and B, each built by the constructor
InitTwo ==
    \E n \in 0 .. MaxLen, m \in 0 .. MaxLen :
      \E ta \in [1 .. n -> TimeDom], va \in [1 .. n -> ValDom], ha \in BOOLEAN,
         tb \in [1 .. m -> TimeDom], vb \in [1 .. m -> ValDom], hb \in BOOLEAN :
        LET a == TimeSeries(NewList(NewList(<<>>, ArgValues(1), va), ArgTimes(1), ta),
                            1, ArgValues(1), ArgTimes(1))
            b == TimeSeries(NewList(NewList(a.heap, ArgValues(2), vb), ArgTimes(2), tb),
                            2, ArgValues(2), ArgTimes(2))
        IN  /\ objs = [s \in Slots |->
                         IF s = "A" THEN [a.obj EXCEPT !.hastime = ha]
                         ELSE IF s = "B" THEN [b.obj EXCEPT !.hastime = hb]
                         ELSE NoObj]
            /\ heap = Collect(objs, b.heap)
            /\ last = NoLast

\* one container of up to MaxFmtLen samples, at times 0, 1, 2, ...
InitFmt ==
    \E n \in 0 .. MaxFmtLen :
      \E vl \in [1 .. n -> ValDom] :
        LET a == TimeSeries(NewList(NewList(<<>>, ArgValues(1), vl), ArgTimes(1),
                                    [k \in 1 .. n |-> k - 1]),
                            1, ArgValues(1), ArgTimes(1))
        IN  /\ objs = [s \in Slots |-> IF s = "A" THEN a.obj ELSE NoObj]
            /\ heap = Collect(objs, a.heap)
            /\ last = NoLast

Init == InitOne

\* a container, the reads and writes of its items, its copies and negations
Next == GetItem \/ SetItem \/ Pos \/ Neg

Spec == Init /\ [][Next]_vars

\* one operator call on two containers as built
FirstCall == last.op = "init"
CallPos == FirstCall /\ Pos
CallNeg == FirstCall /\ Neg
CallAdd == FirstCall /\ Add
CallSub == FirstCall /\ Sub
CallMul == FirstCall /\ Mul
CallEq == FirstCall /\ Eq

NextArith == CallPos \/ CallNeg \/ CallAdd \/ CallSub \/ CallMul \/ CallEq

SpecArith == InitTwo /\ [][NextArith]_vars

NextFmt == Repr \/ Str

SpecFmt == InitFmt /\ [][NextFmt]_vars

(* ------------------------------- claims ------------------------------- *)

Values(s) == heap[objs[s].values]
Times(s) == heap[objs[s].times]
Pairs(s) == heap[objs[s].timeseries]

\* the indexes of a list of n items, and the item each one names
ValidIndex(n, i) == i \in (0 - n) .. (n - 1)
ItemOf(n, i) == IF i < 0 THEN i + n ELSE i

Aligned(s, r) ==
    /\ r \in Slots
    /\ objs[s].hastime /\ objs[r].hastime
    /\ Times(s) = Times(r)

BinOps == {"add", "sub", "mul", "eq"}
ArithOps == {"add", "sub", "mul"}
Arith(op, x, y) == IF op = "add" THEN x + y ELSE IF op = "sub" THEN x - y ELSE x * y

\* C1: in every container, whatever items have been set, the times, the
\* values and the pairs have the same length, and the pair at every position
\* is (time at that position, value at that position).
C1_PairsInSync ==
    \A s \in Bound(objs) :
        /\ Len(Times(s)) = Len(Values(s))
        /\ Len(Pairs(s)) = Len(Values(s))
        /\ \A k \in 1 .. Len(Values(s)) : Pairs(s)[k] = <<Times(s)[k], Values(s)[k]>>

\* a successful set on a two-item container whose other item holds another value
C1_Witness ==
    /\ last.op = "setitem" /\ last.outcome = "ok" /\ last.idx = 1
    /\ Len(Values(last.self)) = 2
    /\ Values(last.self)[2] = last.arg
    /\ Values(last.self)[1] # last.arg
    /\ Times(last.self)[2] # last.arg

\* C2: a successful set(i, v) makes get(i) return v, leaves the whole time
\* sequence as it was, and leaves the value at every other position as it was.
C2_SetThenGet ==
    [][(last'.op = "setitem" /\ last'.outcome = "ok") =>
         LET o == objs[last'.self]
             n == Len(heap[o.values])
         IN  /\ getitem(heap', o, last'.idx) = [outcome |-> "ok", ret |-> last'.arg]
             /\ heap'[o.times] = heap[o.times]
             /\ \A k \in IndexDom :
                  (ValidIndex(n, k) /\ ItemOf(n, k) # ItemOf(n, last'.idx))
                     => getitem(heap', o, k) = getitem(heap, o, k)]_vars

\* a set through a negative index that stored a value unlike its time
C2_Witness ==
    /\ last.op = "setitem" /\ last.outcome = "ok" /\ last.idx = 0 - 2
    /\ Len(Values(last.self)) = 2
    /\ Values(last.self) = <<last.arg, 1 - last.arg>>
    /\ Times(last.self)[1] # last.arg

\* C3: on two containers that have time data and the same time sequence,
\* add, subtract and multiply each return a new container of the same
\* length, with the left operand's times, whose value at every position is
\* the sum, the difference, the product of the operands' values there.
C3_Pointwise ==
    (last.op \in ArithOps /\ Aligned(last.self, last.rhs)) =>
        LET n == Len(Values(last.self))
        IN  /\ last.outcome = "ok"
            /\ last.new = objs["R"].id
            /\ Len(Values("R")) = n
            /\ Times("R") = Times(last.self)
            /\ \A i \in 0 .. (n - 1) :
                 getitem(heap, objs["R"], i) =
                    [outcome |-> "ok",
                     ret |-> Arith(last.op,
                                   getitem(heap, objs[last.self], i).ret,
                                   getitem(heap, objs[last.rhs], i).ret)]

\* A - B on two-item containers where sum, difference and product all differ
C3_Witness ==
    /\ last.op = "sub" /\ last.self = "A" /\ last.rhs = "B"
    /\ last.outcome = "ok"
    /\ Values("A") = <<0, 1>> /\ Values("B") = <<1, 1>>
    /\ Values("R") = <<0 - 1, 0>>
    /\ Times("R") = <<1, 0>>

\* C4: when both operands have time data and their time sequences differ
\* (an element, the order or the length), add, subtract, multiply and equals
\* each raise the misalignment error (ValueError) and no container is made.
C4_Misaligned ==
    (/\ last.op \in BinOps /\ last.rhs \in Slots
     /\ objs[last.self].hastime /\ objs[last.rhs].hastime
     /\ Times(last.self) # Times(last.rhs))
        => /\ last.outcome = "ValueError"
           /\ last.new = 0
           /\ objs["R"] = NoObj

\* an addition of two containers whose times are the same in another order
C4_Witness ==
    /\ last.op = "add" /\ last.self = "A" /\ last.rhs = "B"
    /\ objs["A"].hastime /\ objs["B"].hastime
    /\ Times("A") = <<0, 1>> /\ Times("B") = <<1, 0>>
    /\ last.outcome = "ValueError"

\* C5: on two aligned containers equals returns true exactly when get(i) is
\* the same on both at every position; so a container with time data equals
\* itself, and one differing position makes the answer false.
C5_EqualsPointwise ==
    (last.op = "eq" /\ Aligned(last.self, last.rhs)) =>
        /\ last.outcome = "ok"
        /\ last.retb = (\A i \in 0 .. (Len(Values(last.self)) - 1) :
                           getitem(heap, objs[last.self], i)
                              = getitem(heap, objs[last.rhs], i))

\* aligned containers that agree at one position and differ at the other
C5_Witness ==
    /\ last.op = "eq" /\ last.self = "A" /\ last.rhs = "B"
    /\ Aligned("A", "B")
    /\ Len(Values("A")) = 2
    /\ Values("A")[1] = Values("B")[1]
    /\ Values("A")[2] # Values("B")[2]
    /\ last.outcome = "ok" /\ ~last.retb

\* C6: when an operand of add, subtract, multiply or equals lacks time data,
\* the call ends "operation not applicable", which is neither the type
\* mismatch error (TypeError) nor the misalignment error (ValueError).
C6_NotApplicable ==
    (/\ last.op \in BinOps /\ last.rhs \in Slots
     /\ (~objs[last.self].hastime \/ ~objs[last.rhs].hastime))
        => /\ last.outcome = "NotImplemented"
           /\ last.outcome \notin {"TypeError", "ValueError"}

\* the token that follows the literal text t in s
After(s, t) == s[str_find(s, Lit(t)) + 2]
IsPair(t) == t.k = "pair"

\* C7: both forms render all pairs of a container of at most 5 samples; of a
\* longer one both render the first 5 pairs followed by the truncation
\* marker; the diagnostic form carries the pairs in its timeseries field and
\* the true length in its len field.
C7_Formatting ==
    (last.op \in {"repr", "str"}) =>
        LET l == Pairs(last.self)
            n == Len(l)
            out == last.rets
            m == IF n <= 5 THEN n ELSE 5
        IN  /\ SelectSeq(out, IsPair) = [k \in 1 .. m |-> PairTok(l[k])]
            /\ (n <= 5) => (\A j \in 1 .. Len(out) : out[j] # Lit("..."))
            /\ (n > 5) =>
                 \E j \in 1 .. (Len(out) - 3) :
                    /\ out[j] = PairTok(l[5])
                    /\ out[j + 1] = Lit(", ")
                    /\ out[j + 2] = Lit("...")
                    /\ out[j + 3] = Lit("]")
            /\ (last.op = "repr") =>
                 /\ After(out, "len = ") = IntTok(n)
                 /\ After(out, "timeseries = ") = Lit("[")

\* C9: with a right-hand operand that is not a TimeSeries, add, subtract,
\* multiply and equals raise the type mismatch error (TypeError) without
\* running the alignment check, make no container and change nothing.
C9_TypeMismatch ==
    [][(last'.op \in BinOps /\ last'.rhs \in NonTS) =>
          /\ last'.outcome = "TypeError"
          /\ ~last'.checked
          /\ last'.new = 0
          /\ objs' = objs
          /\ heap' = heap]_vars

\* equals against an integer, on a container that has time data and items
C9_Witness ==
    /\ last.op = "eq" /\ last.rhs = "int" /\ last.self = "A"
    /\ objs["A"].hastime /\ Len(Values("A")) = 2
    /\ last.outcome = "TypeError" /\ ~last.checked

\* C10: with an index outside -N .. N-1 get and set raise the out-of-range
\* error (IndexError), and the failed set changes no list of any container.
C10_OutOfRange ==
    [][/\ (/\ last'.op = "getitem"
           /\ ~ValidIndex(Len(heap[objs[last'.self].values]), last'.idx))
            => last'.outcome = "IndexError"
       /\ (/\ last'.op = "setitem"
           /\ ~ValidIndex(Len(heap[objs[last'.self].values]), last'.idx))
            => /\ last'.outcome = "IndexError"
               /\ heap' = heap
               /\ objs' = objs]_vars

\* a set one past the end of a two-item container
C10_Witness ==
    /\ last.op = "setitem" /\ last.idx = 2
    /\ Len(Values(last.self)) = 2
    /\ last.outcome = "IndexError"
    /\ Values(last.self)[2] # last.arg

====
